---- MODULE Spec2Model ----
(***************************************************************************)
(* A model of brc-rs (src/src/main.rs): the chunk planner chunk_le_file,   *)
(* the fixed-point line parser parse_line, the worker scan loop            *)
(* aggregate_measurements, the merge under the mutex and the report of     *)
(* calc.  Bytes are their ASCII codes, byte strings are sequences of them. *)
(***************************************************************************)
EXTENDS Integers, Sequences, FiniteSets, TLC

VARIABLES
    overflow_checks,        \* build mode: does u8 arithmetic overflow panic (debug) or wrap (release)
    line,                   \* parser on its own: the line handed to parse_line
    parsed,                 \* parser on its own: what parse_line did with it
    file,                   \* the bytes of the input file
    available_parallelism,  \* std::thread::available_parallelism()
    main_pc,                \* where the main thread is in main/calc
    chunks,                 \* the Vec<Chunk> chunk_le_file returned
    handles,                \* how many worker threads calc has spawned
    joined,                 \* how many of them calc has joined
    wk,                     \* the worker threads: position, file handle, buffer, private map
    stations,               \* the shared map behind the Arc<Mutex<..>>
    lock,                   \* the holder of the mutex: 0 when free, else the worker's index
    res,                    \* the String calc returned
    out,                    \* what main printed on standard output
    records,                \* merge on its own: the records to fold, (key, value) pairs
    taken,                  \* merge on its own: how many of them have been folded
    groups                  \* merge on its own: the private maps and whether each was merged

parseVars == <<line, parsed>>
mergeVars == <<records, taken, groups>>
planVars == <<file, available_parallelism, main_pc, chunks>>
runVars == <<handles, joined, wk, stations, lock, res, out>>
vars == <<overflow_checks, line, parsed, file, available_parallelism, main_pc, chunks,
          handles, joined, wk, stations, lock, res, out, records, taken, groups>>

----------------------------------------------------------------------------
(* Bytes *)

NL == 10        \* b'\n'
SEMI == 59      \* b';'
MINUS == 45     \* b'-'
DOT == 46       \* b'.'
ZERO == 48      \* b'0'
SCAN == 6       \* .take(6)

SeqsUpTo(S, n) == UNION {[1..k -> S] : k \in 0..n}

MinOf(a, b) == IF a <= b THEN a ELSE b
MaxOf(a, b) == IF a >= b THEN a ELSE b

----------------------------------------------------------------------------
(* parse_line, main.rs 41-79 *)

\* the weights of the ones and the tens digit exchanged
DigitWeightSwapped(idx) == IF idx = 0 THEN 1 ELSE IF idx = 2 THEN 100 ELSE 10

\* the weight of the digit at reversed index idx (match arms (b, 0), (b, 2), (b, 3))
DigitWeight(idx) == IF idx = 0 THEN 1 ELSE IF idx = 2 THEN 10 ELSE 100

\* reversed index 1 taken as a digit too
DigitIndicesWithOne == {0, 1, 2, 3}

\* the reversed indices with a digit arm: (b, 0), (b, 2), (b, 3)
DigitIndices == {0, 2, 3}

\* (b - b'0') as i64: the subtraction is in u8, modulo 2^8 when it wraps
DigitOf(b) == (b - ZERO) % 256

\* one iteration of the for loop over line.into_iter().rev().take(6).enumerate()
ParseByte(st, b, idx, len, checks) ==
    IF b = SEMI THEN [st EXCEPT !.semicolon_idx = len - idx - 1, !.brk = TRUE]
    ELSE IF b = MINUS THEN [st EXCEPT !.is_negative = TRUE]
    ELSE IF b = DOT THEN st
    ELSE IF idx \in DigitIndices
         THEN IF b < ZERO /\ checks
              THEN [st EXCEPT !.panic = TRUE]   \* attempt to subtract with overflow
              ELSE [st EXCEPT !.measurement = @ + DigitOf(b) * DigitWeight(idx)]
    ELSE [st EXCEPT !.panic = TRUE]             \* the panic! arm

RECURSIVE ParseLoop(_, _, _, _)
ParseLoop(ln, idx, st, checks) ==
    IF idx >= MinOf(SCAN, Len(ln)) \/ st.brk \/ st.panic
    THEN st
    ELSE ParseLoop(ln, idx + 1, ParseByte(st, ln[Len(ln) - idx], idx, Len(ln), checks), checks)

ParseStart == [semicolon_idx |-> 0, is_negative |-> FALSE, measurement |-> 0,
               brk |-> FALSE, panic |-> FALSE]

parse_line(ln, checks) ==
    LET st == ParseLoop(ln, 0, ParseStart, checks)
    IN  IF st.panic
        THEN [panic |-> TRUE, key |-> <<>>, val |-> 0]
        ELSE [panic |-> FALSE,
              key |-> SubSeq(ln, 1, st.semicolon_idx),
              val |-> IF st.is_negative THEN 0 - st.measurement ELSE st.measurement]

----------------------------------------------------------------------------
(* chunk_le_file, main.rs 85-116 *)

OVERSUBSCRIPTION == 4   \* "* 4"

\* available_parallelism().map(NonZeroUsize::get).unwrap_or(1) * 4
ChunkCount(par) == par * OVERSUBSCRIPTION

\* the target size without the "+ 1"
ChunkSizeNoPlusOne(file_len, chunk_count) == file_len \div chunk_count

\* file_len / chunk_count + 1
ChunkSize(file_len, chunk_count) == (file_len \div chunk_count) + 1

\* the boundary left at the target offset, not moved to the end of the line
ReadUntilEndNoSnap(f, pos) == pos

\* f.read_until(b'\n', ..) from offset pos, then f.stream_position(): the offset
\* just after the next '\n' at or after pos, the end of file when there is none,
\* pos itself when pos is at or beyond the end of file (nothing is read)
ReadUntilEnd(f, pos) ==
    IF pos >= Len(f) THEN pos
    ELSE LET nls == {o \in pos..(Len(f) - 1) : f[o + 1] = NL}
         IN  IF nls = {} THEN Len(f)
             ELSE (CHOOSE o \in nls : \A q \in nls : o <= q) + 1

\* f.seek(SeekFrom::Current(chunk_size)) with the stream at cur
SeekCurrent(cur, chunk_size) == cur + chunk_size

\* the length one byte short
MkChunkShort(cur_start, end_pos) ==
    [start_point |-> cur_start, len |-> end_pos - cur_start - 1]

\* Chunk { start_point: cur_start, len: end_pos - cur_start, .. }
MkChunk(cur_start, end_pos) == [start_point |-> cur_start, len |-> end_pos - cur_start]

\* the next chunk started one byte after the end of this one
NextStartSkip(end_pos) == end_pos + 1

\* cur_start = end_pos
NextStart(end_pos) == end_pos

\* a chunk that starts at or beyond the end of the file not pushed
RECURSIVE ChunkLoopDiscardEmpty(_, _, _, _, _)
ChunkLoopDiscardEmpty(f, left, chunk_size, cur_start, vec) ==
    IF left = 0 THEN vec
    ELSE LET end_pos == ReadUntilEnd(f, SeekCurrent(cur_start, chunk_size))
         IN  ChunkLoopDiscardEmpty(f, left - 1, chunk_size, NextStart(end_pos),
                 IF cur_start >= Len(f) THEN vec
                 ELSE Append(vec, MkChunk(cur_start, end_pos)))

\* for _ in 0..chunk_count { .. }
RECURSIVE ChunkLoop(_, _, _, _, _)
ChunkLoop(f, left, chunk_size, cur_start, vec) ==
    IF left = 0 THEN vec
    ELSE LET end_pos == ReadUntilEnd(f, SeekCurrent(cur_start, chunk_size))
         IN  ChunkLoop(f, left - 1, chunk_size, NextStart(end_pos),
                       Append(vec, MkChunk(cur_start, end_pos)))

chunk_le_file(f, file_len, par) ==
    ChunkLoop(f, ChunkCount(par), ChunkSize(file_len, ChunkCount(par)), 0, <<>>)

ChunkEnd(c) == c.start_point + c.len

----------------------------------------------------------------------------
(* WeatherStationStats and the maps, main.rs 18-40, 132-140, 238-256 *)

\* WeatherStationStats { min, max, sum, count: 1 }, main.rs 242-247
NewStats(measurement) ==
    [min |-> measurement, max |-> measurement, sum |-> measurement, count |-> 1]

\* the sum assigned, not added to
UpdateStatsSumAssigned(s, measurement) ==
    [min |-> MinOf(s.min, measurement),
     max |-> MaxOf(s.max, measurement),
     sum |-> measurement,
     count |-> s.count + 1]

\* the Some(s) arm, main.rs 250-255
UpdateStats(s, measurement) ==
    [min |-> MinOf(s.min, measurement),
     max |-> MaxOf(s.max, measurement),
     sum |-> s.sum + measurement,
     count |-> s.count + 1]

\* a fresh entry inserted whether or not the key is there
ObserveReplaces(m, station_name, measurement) ==
    [x \in DOMAIN m \cup {station_name} |->
        IF x = station_name THEN NewStats(measurement) ELSE m[x]]

\* match stations.get_mut(station_name) { None => insert, Some(s) => update }
Observe(m, station_name, measurement) ==
    IF station_name \in DOMAIN m
    THEN [m EXCEPT ![station_name] = UpdateStats(@, measurement)]
    ELSE (station_name :> NewStats(measurement)) @@ m

\* the minimum of the left operand kept
AddStatsLeftMin(self, rhs) ==
    [min |-> self.min,
     max |-> MaxOf(self.max, rhs.max),
     sum |-> self.sum + rhs.sum,
     count |-> self.count + rhs.count]

\* the count of the left operand kept
AddStatsCountKept(self, rhs) ==
    [min |-> MinOf(self.min, rhs.min),
     max |-> MaxOf(self.max, rhs.max),
     sum |-> self.sum + rhs.sum,
     count |-> self.count]

\* impl Add<&mut Self> for WeatherStationStats
AddStats(self, rhs) ==
    [min |-> MinOf(self.min, rhs.min),
     max |-> MaxOf(self.max, rhs.max),
     sum |-> self.sum + rhs.sum,
     count |-> self.count + rhs.count]

\* the entry inserted over the one that is there
MergeEntryOverwrite(m, k, v) == [x \in DOMAIN m \cup {k} |-> IF x = k THEN v ELSE m[x]]

\* one turn of `for (k, v) in stations_valipala`, main.rs 134-139
MergeEntry(m, k, v) ==
    IF k \in DOMAIN m
    THEN [m EXCEPT ![k] = AddStats(v, @)]
    ELSE (k :> v) @@ m

\* the map without the entry the iterator has handed out
Without(m, k) == [x \in DOMAIN m \ {k} |-> m[x]]

----------------------------------------------------------------------------
(* aggregate_measurements, main.rs 214-261, over File::take(len) *)

\* const CHUNK_SIZE: usize = 500_000, scaled down to a buffer that holds two
\* short lines
CHUNK_SIZE == 12

NotSpawned ==
    [pc |-> "unspawned", pos |-> 0, limit |-> 0, buf |-> <<>>, consumed |-> 0,
     stations |-> <<>>]

\* how many bytes a read into `space` bytes can return at most: Take caps it by
\* its limit, the file by what is left before its end
ReadAvail(w, f, space) ==
    MinOf(space, MinOf(w.limit, MaxOf(0, Len(f) - w.pos)))

\* the sizes Read::read may return: 0 only when nothing can be read, else all
\* that can be read or a short read, here short by up to MaxShortfall bytes
MaxShortfall == 1
ReadSizes(avail) ==
    IF avail = 0 THEN {0} ELSE {n \in 1..avail : n >= avail - MaxShortfall}

\* every size Read::read may return: any part of what can be read, one byte
\* at least
AllReadSizes(avail) == IF avail = 0 THEN {0} ELSE 1..avail

\* the n bytes a read returns, and the handle after it
ReadBytes(w, f, n) == SubSeq(f, w.pos + 1, w.pos + n)
AfterRead(w, n) == [w EXCEPT !.pos = @ + n, !.limit = @ - n]

\* File::open, seek(Start(c.start_point)), take(c.len), the first read into buf
StartScan(c, f, n) ==
    LET h == [NotSpawned EXCEPT !.pos = c.start_point, !.limit = c.len]
    IN  [AfterRead(h, n) EXCEPT !.pc = "scan", !.buf = ReadBytes(h, f, n)]

\* buf[consumed..bytes_read].iter().position(|b| *b == b'\n')
NewlineAt(w) == {j \in (w.consumed + 1)..Len(w.buf) : w.buf[j] = NL}
HasLine(w) == NewlineAt(w) # {}
\* the last '\n' of the buffer found, not the first
LineEndLast(w) == CHOOSE j \in NewlineAt(w) : \A q \in NewlineAt(w) : j >= q
LineEnd(w) == CHOOSE j \in NewlineAt(w) : \A q \in NewlineAt(w) : j <= q
\* the slice with the '\n' at its end
CurrentLineWithNewline(w) == SubSeq(w.buf, w.consumed + 1, LineEnd(w))

\* &buf[consumed..consumed + line_end_idx]
CurrentLine(w) == SubSeq(w.buf, w.consumed + 1, LineEnd(w) - 1)

\* consumed += line_end_idx + 1
Consume(w) == LineEnd(w)

\* the loop body when the line ln is in the buffer: parse it, observe it,
\* consume it
LineStepOn(w, ln, checks) ==
    LET r == parse_line(ln, checks)
    IN  IF r.panic
        THEN [w EXCEPT !.pc = "panicked"]
        ELSE [w EXCEPT !.stations = Observe(@, r.key, r.val),
                       !.consumed = Consume(w)]

\* the loop body when a line is in the buffer, the line sliced out of it once
LineStep(w, checks) ==
    CHOOSE nw \in {LineStepOn(w, ln, checks) : ln \in {CurrentLine(w)}} : TRUE

\* the unconsumed bytes not kept
RemainderLost(w) == <<>>

\* buf.copy_within(consumed..bytes_read, 0); remainder = bytes_read - consumed
Remainder(w) == SubSeq(w.buf, w.consumed + 1, Len(w.buf))

\* a buffer that grows: room for CHUNK_SIZE more bytes behind the remainder
RefillSpaceGrowing(w) == CHUNK_SIZE

\* &mut buf[remainder..]
RefillSpace(w) == CHUNK_SIZE - Len(Remainder(w))

\* the pending bytes parsed and observed as a last line at the end of the stream
RefillStepParsesTail(w, f, n) ==
    IF n = 0
    THEN LET r == parse_line(Remainder(w), FALSE)
         IN  IF Remainder(w) = <<>> THEN [w EXCEPT !.pc = "lock", !.buf = <<>>, !.consumed = 0]
             ELSE IF r.panic THEN [w EXCEPT !.pc = "panicked"]
             ELSE [w EXCEPT !.pc = "lock", !.buf = <<>>, !.consumed = 0,
                            !.stations = Observe(@, r.key, r.val)]
    ELSE [AfterRead(w, n) EXCEPT !.buf = Remainder(w) \o ReadBytes(w, f, n),
                                 !.consumed = 0]

\* no break on a read of zero bytes: the loop goes round again
RefillStepNoBreak(w, f, n) ==
    [AfterRead(w, n) EXCEPT !.buf = Remainder(w) \o ReadBytes(w, f, n),
                            !.consumed = 0]

\* the loop body when no line is in the buffer: move the remainder to the
\* front, read n bytes behind it; n = 0 breaks out of the loop and the
\* function returns its map
RefillStep(w, f, n) ==
    IF n = 0
    THEN [w EXCEPT !.pc = "lock", !.buf = <<>>, !.consumed = 0]
    ELSE [AfterRead(w, n) EXCEPT !.buf = Remainder(w) \o ReadBytes(w, f, n),
                                 !.consumed = 0]

\* the loop run to its end, every read returning all that can be read
RECURSIVE ScanLoop(_, _, _)
ScanLoop(w, f, checks) ==
    IF w.pc # "scan" THEN w
    ELSE IF HasLine(w) THEN ScanLoop(LineStep(w, checks), f, checks)
    ELSE ScanLoop(RefillStep(w, f, ReadAvail(w, f, RefillSpace(w))), f, checks)

\* aggregate_measurements over the chunk c of f
aggregate_measurements(c, f, checks) ==
    ScanLoop(StartScan(c, f, ReadAvail([pos |-> c.start_point, limit |-> c.len],
                                       f, CHUNK_SIZE)), f, checks)

\* `for (k, v) in stations_valipala { .. }` run to its end, main.rs 133-140
RECURSIVE MergeAll(_, _)
MergeAll(m, local) ==
    IF DOMAIN local = {} THEN m
    ELSE LET k == CHOOSE k \in DOMAIN local : TRUE
         IN  MergeAll(MergeEntry(m, k, local[k]), Without(local, k))

----------------------------------------------------------------------------
(* The report of calc, main.rs 147-165 *)

\* a.0.cmp(&b.0) on Vec<u8>: byte-wise lexicographic order
RECURSIVE LexLess(_, _)
LexLess(a, b) ==
    IF b = <<>> THEN FALSE
    ELSE IF a = <<>> THEN TRUE
    ELSE IF a[1] # b[1] THEN a[1] < b[1]
    ELSE LexLess(Tail(a), Tail(b))

\* keys compared by their first byte alone
KeyBeforeFirstByte(a, b) ==
    IF b = <<>> THEN FALSE ELSE IF a = <<>> THEN TRUE ELSE a[1] < b[1]

\* the comparison sort_unstable_by is given
KeyBefore(a, b) == LexLess(a, b)

RECURSIVE InsertSorted(_, _)
InsertSorted(sorted, k) ==
    IF sorted = <<>> THEN <<k>>
    ELSE IF KeyBefore(k, Head(sorted)) THEN <<k>> \o sorted
    ELSE <<Head(sorted)>> \o InsertSorted(Tail(sorted), k)

\* res.sort_unstable_by(|a, b| a.0.cmp(&b.0))
RECURSIVE SortKeys(_)
SortKeys(ks) ==
    IF ks = <<>> THEN <<>> ELSE InsertSorted(SortKeys(Tail(ks)), Head(ks))

\* the orders lock.iter() may hand the entries out in
IterOrders(m) ==
    {ks \in [1..Cardinality(DOMAIN m) -> DOMAIN m] :
        \A i, j \in DOMAIN ks : i # j => ks[i] # ks[j]}

\* the decimal digits of a natural number
RECURSIVE Decimal(_)
Decimal(n) ==
    IF n < 10 THEN <<ZERO + n>> ELSE Decimal(n \div 10) \o <<ZERO + (n % 10)>>

Abs(x) == IF x < 0 THEN 0 - x ELSE x

\* a number of |t| tenths with the sign given, written with one fractional digit
FixedOne(negative, t) ==
    (IF negative THEN <<MINUS>> ELSE <<>>)
        \o Decimal(t \div 10) \o <<DOT, ZERO + (t % 10)>>

\* format!("{:.1}", stats.min as f64 / 10.0)
FormatTenths(t) == FixedOne(t < 0, Abs(t))

\* the tenths nearest to sum / count, a tie going to the even one
RoundedMean(sum, count) ==
    LET q == Abs(sum) \div count
        r == Abs(sum) % count
    IN  IF 2 * r > count THEN q + 1
        ELSE IF 2 * r = count THEN q + (q % 2)
        ELSE q

\* format!("{:.1}", stats.mean()) with mean = sum as f64 / 10.0 / count as f64.
\* The f64 quotient is printed rounded to the nearest tenth, a negative one
\* with its sign even when it rounds to zero.  For sums that are multiples of
\* 0.5 and counts below 10 (all that arise here) the quotient of a tie is an
\* exact f64 and the tie goes to the even digit.
FormatMean(stats) == FixedOne(stats.sum < 0, RoundedMean(stats.sum, stats.count))

\* format!("{}={:.1}/{:.1}/{:.1}", station, min, mean, max)
FormatEntry(station, stats) ==
    station \o <<61>> \o FormatTenths(stats.min) \o <<47>> \o FormatMean(stats)
            \o <<47>> \o FormatTenths(stats.max)

\* .collect::<Vec<_>>().join(", ")
RECURSIVE JoinEntries(_, _)
JoinEntries(m, ks) ==
    IF ks = <<>> THEN <<>>
    ELSE FormatEntry(Head(ks), m[Head(ks)])
         \o (IF Tail(ks) = <<>> THEN <<>> ELSE <<44, 32>> \o JoinEntries(m, Tail(ks)))

\* String::from("{") + .. + "}\n", the entries taken in the order ks and sorted
Render(m, ks) == <<123>> \o JoinEntries(m, SortKeys(ks)) \o <<125, NL>>

----------------------------------------------------------------------------
(* The parser on its own: a line is drawn, parse_line is applied to it. *)

MaxKeyPrefix == 1
\* 'A', ';', '-', '.', '1', '9', ' '
ParseAlphabet == {65, SEMI, MINUS, DOT, 49, 57, 32}
\* every line of up to SCAN bytes, the bytes parse_line looks at, and each of
\* them behind a few more key bytes 'A'
ParseLines ==
    {pre \o t : pre \in SeqsUpTo({65}, MaxKeyPrefix), t \in SeqsUpTo(ParseAlphabet, SCAN)}

NotParsed == [done |-> FALSE, panic |-> FALSE, key |-> <<>>, val |-> 0]

\* the parts of the state a specification does not use
ParserIdle == line = <<>> /\ parsed = NotParsed
PlannerIdle ==
    /\ file = <<>>
    /\ available_parallelism = 1
    /\ main_pc = "idle"
    /\ chunks = <<>>
MergerIdle == records = <<>> /\ taken = 0 /\ groups = <<>>
NotRun ==
    /\ handles = 0
    /\ joined = 0
    /\ wk = <<>>
    /\ stations = <<>>
    /\ lock = 0
    /\ res = <<>>
    /\ out = <<>>

ParseInit ==
    /\ overflow_checks \in BOOLEAN
    /\ line \in ParseLines
    /\ parsed = NotParsed
    /\ PlannerIdle
    /\ NotRun
    /\ MergerIdle

ParseCall ==
    /\ ~parsed.done
    /\ parsed' = [done |-> TRUE] @@ parse_line(line, overflow_checks)
    /\ UNCHANGED <<overflow_checks, line>>
    /\ UNCHANGED planVars
    /\ UNCHANGED runVars
    /\ UNCHANGED mergeVars

ParseNext == ParseCall

SpecParse == ParseInit /\ [][ParseNext]_vars

----------------------------------------------------------------------------
(* The record grammar of the input format:                                 *)
(* <key without ';' or newline> ';' '-'? D? D '.' D                        *)

IsDigit(b) == b \in ZERO..(ZERO + 9)

Unsigned(v) == IF v # <<>> /\ v[1] = MINUS THEN Tail(v) ELSE v

\* v matches -?D?D.D
ValueMatches(v) ==
    LET u == Unsigned(v)
    IN  /\ Len(u) \in {3, 4}
        /\ u[Len(u) - 1] = DOT
        /\ IsDigit(u[Len(u)])
        /\ \A j \in 1..(Len(u) - 2) : IsDigit(u[j])

\* the number a matching v denotes, in tenths
ValueTenths(v) ==
    LET u == Unsigned(v)
        whole == IF Len(u) = 4 THEN (u[1] - ZERO) * 10 + (u[2] - ZERO) ELSE u[1] - ZERO
        abs == whole * 10 + (u[Len(u)] - ZERO)
    IN  IF v[1] = MINUS THEN 0 - abs ELSE abs

SemiPositions(ln) == {i \in 1..Len(ln) : ln[i] = SEMI}
LastSemi(ln) == CHOOSE i \in SemiPositions(ln) : \A j \in SemiPositions(ln) : j <= i

MatchesGrammar(ln) ==
    /\ Cardinality(SemiPositions(ln)) = 1
    /\ \A j \in 1..Len(ln) : ln[j] # NL
    /\ ValueMatches(SubSeq(ln, LastSemi(ln) + 1, Len(ln)))

\* the trailing bytes match -?D?D.D preceded by ';'
TailMatches(ln) ==
    \E i \in SemiPositions(ln) : ValueMatches(SubSeq(ln, i + 1, Len(ln)))

\* the byte at reversed index idx
RevByte(ln, idx) == ln[Len(ln) - idx]
\* the reversed indices the scan inspects before it stops at a ';' or after 6 bytes
Scanned(ln) ==
    {idx \in 0..(MinOf(SCAN, Len(ln)) - 1) :
        \A j \in 0..idx : RevByte(ln, j) # SEMI}

----------------------------------------------------------------------------
(* Claims about parse_line *)

\* C7: for every line matching the grammar, parse_line returns the bytes before
\* the last ';' as key and the signed decimal after it, times ten, as value,
\* and the value lies in -999..999.
C7_ParseGrammarLine ==
    (parsed.done /\ MatchesGrammar(line)) =>
        /\ ~parsed.panic
        /\ parsed.key = SubSeq(line, 1, LastSemi(line) - 1)
        /\ parsed.val = ValueTenths(SubSeq(line, LastSemi(line) + 1, Len(line)))
        /\ parsed.val \in -999..999

\* "A;-19.9" has been parsed
C7_Witness ==
    /\ parsed.done
    /\ line = <<65, SEMI, MINUS, 49, 57, DOT, 57>>
    /\ parsed.val = 0 - 199

\* C10 as stated: the parser never returns a value for a line whose trailing
\* bytes do not match -?D?D.D preceded by ';'.
C10_OnlyPatternAccepted ==
    (parsed.done /\ ~TailMatches(line)) => parsed.panic

\* a byte other than ';', '-', '.' at reversed index 1, 4 or 5 of the scan
BadAt145(ln) ==
    \E idx \in Scanned(ln) \cap {1, 4, 5} : RevByte(ln, idx) \notin {MINUS, DOT}
\* a byte below '0' other than '-', '.' at reversed index 0, 2 or 3 of the scan
LowAt023(ln) ==
    \E idx \in Scanned(ln) \cap {0, 2, 3} :
        RevByte(ln, idx) < ZERO /\ RevByte(ln, idx) \notin {MINUS, DOT}

\* C10 as amended: parse_line fails exactly when a byte other than ';', '-',
\* '.' stands at reversed index 1, 4 or 5 of the scanned bytes, or, in a build
\* with overflow checks, a byte below '0' stands at reversed index 0, 2 or 3;
\* every other byte at reversed index 0, 2 or 3 is taken as a digit unchecked.
C10_PanicOnlyAt145 ==
    parsed.done =>
        (parsed.panic <=> (BadAt145(line) \/ (overflow_checks /\ LowAt023(line))))

\* "A;1.A" has been parsed: the 'A' at reversed index 0 counts as the digit 17
C10_Witness ==
    /\ parsed.done
    /\ line = <<65, SEMI, 49, DOT, 65>>
    /\ ~parsed.panic
    /\ parsed.val = 27

----------------------------------------------------------------------------
(* The planner on its own: a file and a parallelism are drawn, calc opens   *)
(* the file and plans the chunks.                                          *)

MaxPlanFileLen == 9
MaxParallelism == 2
\* 'x' and '\n'
PlanAlphabet == {120, NL}

PlanInit ==
    /\ overflow_checks = FALSE
    /\ ParserIdle
    /\ MergerIdle
    /\ file \in SeqsUpTo(PlanAlphabet, MaxPlanFileLen)
    /\ available_parallelism \in 1..MaxParallelism
    /\ main_pc = "start"
    /\ chunks = <<>>
    /\ NotRun

\* calc, main.rs 118-122: open the file, take its length, create the shared
\* map, plan the chunks
PlanChunks ==
    /\ main_pc = "start"
    /\ stations' = <<>>
    /\ chunks' = chunk_le_file(file, Len(file), available_parallelism)
    /\ wk' = [i \in 1..ChunkCount(available_parallelism) |-> NotSpawned]
    /\ main_pc' = "spawn"
    /\ UNCHANGED <<overflow_checks, file, available_parallelism>>
    /\ UNCHANGED <<handles, joined, lock, res, out>>
    /\ UNCHANGED parseVars
    /\ UNCHANGED mergeVars

PlanNext == PlanChunks

SpecPlan == PlanInit /\ [][PlanNext]_vars

Planned == main_pc \notin {"idle", "start"}

\* the byte offsets of the file chunk i covers
ChunkBytes(i) ==
    {o \in 0..(Len(file) - 1) :
        chunks[i].start_point <= o /\ o < ChunkEnd(chunks[i])}

\* C5: the planned chunks are contiguous (the first starts at 0, each next one
\* starts where the previous one ends), do not overlap, and every byte of the
\* file belongs to exactly one chunk.
C5_ChunkCoverage ==
    Planned =>
        /\ chunks # <<>>
        /\ chunks[1].start_point = 0
        /\ \A i \in 1..(Len(chunks) - 1) :
              chunks[i + 1].start_point = ChunkEnd(chunks[i])
        /\ \A i, j \in 1..Len(chunks) :
              i < j => ChunkEnd(chunks[i]) <= chunks[j].start_point
        /\ \A o \in 0..(Len(file) - 1) :
              Cardinality({i \in 1..Len(chunks) : o \in ChunkBytes(i)}) = 1

\* a file of three lines has been split into chunks of which two hold bytes
C5_Witness ==
    /\ Planned
    /\ Len(file) = MaxPlanFileLen
    /\ Cardinality({i \in 1..Len(chunks) : ChunkBytes(i) # {}}) >= 2
    /\ Cardinality({o \in 1..Len(file) : file[o] = NL}) = 3

\* C6 as stated: every chunk boundary except the one at end of file has a '\n'
\* as the byte just before it.
C6_BoundaryAfterNewline ==
    Planned =>
        \A i \in 1..Len(chunks) :
            \/ ChunkEnd(chunks[i]) = Len(file)
            \/ /\ ChunkEnd(chunks[i]) \in 1..Len(file)
               /\ file[ChunkEnd(chunks[i])] = NL

\* C6 as amended: every chunk boundary that lies before the end of the file has
\* a '\n' as the byte just before it, so no line of the file spans two chunks;
\* the boundaries at or beyond the end of file are not after a '\n'.
C6_InnerBoundaryAfterNewline ==
    Planned =>
        \A i \in 1..Len(chunks) :
            ChunkEnd(chunks[i]) < Len(file) =>
                /\ ChunkEnd(chunks[i]) >= 1
                /\ file[ChunkEnd(chunks[i])] = NL

\* a chunk boundary lies inside the file, after a line that the target offset
\* fell into
C6_Witness ==
    /\ Planned
    /\ \E i \in 1..Len(chunks) :
          /\ ChunkEnd(chunks[i]) < Len(file)
          /\ ChunkEnd(chunks[i]) > chunks[i].start_point
                 + ChunkSize(Len(file), ChunkCount(available_parallelism))

\* C17 as stated: the final chunk ends exactly at file length.
C17_LastChunkEndsAtFileLength ==
    Planned => ChunkEnd(chunks[Len(chunks)]) = Len(file)

\* the bytes a worker can read through File::take(c.len) from c.start_point
TakeBytes(c) ==
    ReadAvail([pos |-> c.start_point, limit |-> c.len], file, c.len)

\* C17 as amended: the recorded end (start + length) of the final chunk is
\* never the file length: it lies beyond it, at or after chunk_count times the
\* target size, the cursor being moved on by the target with no clamp; what
\* can be read of the final chunk ends at file length.
C17_LastChunkEndsBeyondFile ==
    Planned =>
        LET last == chunks[Len(chunks)]
            chunk_count == available_parallelism * OVERSUBSCRIPTION
        IN  /\ ChunkEnd(last) > Len(file)
            /\ ChunkEnd(last) >= chunk_count * ((Len(file) \div chunk_count) + 1)
            /\ TakeBytes(last) = MaxOf(0, Len(file) - last.start_point)

\* a file that ends with '\n' has a chunk that ends at file length, and the
\* chunks after it, the final one included, lie beyond the end of the file
C17_Witness ==
    /\ Planned
    /\ Len(file) = MaxPlanFileLen
    /\ file[Len(file)] = NL
    /\ \E i \in 1..(Len(chunks) - 1) : ChunkEnd(chunks[i]) = Len(file)
    /\ chunks[Len(chunks)].start_point > Len(file)

\* C18 as stated: the empty file gives the empty chunk list, and no chunk of
\* the list covers zero bytes of the file.
C18_NoEmptyChunk ==
    Planned =>
        /\ (file = <<>> => chunks = <<>>)
        /\ \A i \in 1..Len(chunks) : ChunkBytes(i) # {}

\* C18 as amended: whatever the file, the list holds chunk_count chunks, each
\* of a recorded length of at least 1; for the empty file they are the chunks
\* of length 1 at the offsets 0, 1, 2, ..; a chunk covers zero bytes of the
\* file exactly when it starts at or beyond the end of the file, and it is
\* kept in the list.
C18_EmptyChunksKept ==
    Planned =>
        /\ Len(chunks) = available_parallelism * OVERSUBSCRIPTION
        /\ \A i \in 1..Len(chunks) :
              /\ chunks[i].len >= 1
              /\ (ChunkBytes(i) = {} <=> chunks[i].start_point >= Len(file))
              /\ (file = <<>> => chunks[i] = [start_point |-> i - 1, len |-> 1])

\* the empty file has been planned into eight chunks
C18_Witness ==
    /\ Planned
    /\ file = <<>>
    /\ available_parallelism = 2
    /\ Len(chunks) = 8
    /\ \A i \in 1..Len(chunks) : ChunkBytes(i) = {}

----------------------------------------------------------------------------
(* The whole run: main calls calc, calc plans the chunks, spawns a thread   *)
(* per chunk, joins them in order and renders the shared map; each thread   *)
(* scans its chunk, takes the mutex and folds its map into the shared one.  *)

MaxLines == 2
\* "A;1.0", "B;-2.5", "A;3.0": records of the grammar
GoodLines == {<<65, SEMI, 49, DOT, ZERO>>,
              <<66, SEMI, MINUS, 50, DOT, 53>>,
              <<65, SEMI, 51, DOT, ZERO>>}
\* "A;1,0": ',' at reversed index 1, parse_line panics
\* "A;1.X": not a record of the grammar, but parse_line returns ("A", 50)
BadLines == {<<65, SEMI, 49, 44, ZERO>>,
             <<65, SEMI, 49, DOT, 88>>}

\* the lines, each with its '\n', one after the other
RECURSIVE Concat(_)
Concat(ls) == IF ls = <<>> THEN <<>> ELSE Head(ls) \o <<NL>> \o Concat(Tail(ls))

\* the end-to-end scenario "A;1.0\nB;-2.5\nA;3.0\n"
ScenarioFile ==
    Concat(<< <<65, SEMI, 49, DOT, ZERO>>,
              <<66, SEMI, MINUS, 50, DOT, 53>>,
              <<65, SEMI, 51, DOT, ZERO>> >>)

\* "A;1.0\nA;-2.5\nB;-2.5\n": its first chunk, two lines of one key, is longer
\* than the read buffer
LongChunkFile ==
    Concat(<< <<65, SEMI, 49, DOT, ZERO>>,
              <<65, SEMI, MINUS, 50, DOT, 53>>,
              <<66, SEMI, MINUS, 50, DOT, 53>> >>)

\* "A;1.0\nB;-2.5\nB;-2.5\n": its first chunk holds two keys
TwoKeyChunkFile ==
    Concat(<< <<65, SEMI, 49, DOT, ZERO>>,
              <<66, SEMI, MINUS, 50, DOT, 53>>,
              <<66, SEMI, MINUS, 50, DOT, 53>> >>)

\* every file of up to MaxLines of these lines, and the three files above
RunFiles ==
    {Concat(ls) : ls \in SeqsUpTo(GoodLines \cup BadLines, MaxLines)}
        \cup {ScenarioFile, LongChunkFile, TwoKeyChunkFile}

\* no byte of RunFiles is below '0' where parse_line takes a digit, so the run
\* is the same with and without overflow checks
Init ==
    /\ overflow_checks = FALSE
    /\ ParserIdle
    /\ MergerIdle
    /\ file \in RunFiles
    /\ available_parallelism = 1
    /\ main_pc = "start"
    /\ chunks = <<>>
    /\ NotRun

Workers == DOMAIN wk
Running == main_pc \notin {"failed", "done"}

\* every variable but wk, stations and lock
mainVars == <<overflow_checks, line, parsed, file, available_parallelism, main_pc,
              chunks, handles, joined, res, out, records, taken, groups>>

\* the result of join dropped
JoinIgnored(thread_pc, last) == IF last THEN "report" ELSE "join"

\* the report begun after the first join
JoinFirstOnly(thread_pc, last) ==
    IF thread_pc = "panicked" THEN "failed" ELSE "report"

\* h.join().unwrap(): a thread that panicked makes main panic; after the last
\* handle calc goes on to the report
JoinUnwrap(thread_pc, last) ==
    IF thread_pc = "panicked" THEN "failed"
    ELSE IF last THEN "report" ELSE "join"

\* File::open(..).unwrap() in calc fails: main panics
MainOpenFails ==
    /\ main_pc = "start"
    /\ main_pc' = "failed"
    /\ UNCHANGED <<overflow_checks, file, available_parallelism, chunks>>
    /\ UNCHANGED runVars
    /\ UNCHANGED parseVars
    /\ UNCHANGED mergeVars

\* a thread spawned for each unit of parallelism, not for each chunk
MainSpawnOnePerCore ==
    /\ main_pc = "spawn"
    /\ handles < Len(chunks)
    /\ wk' = [wk EXCEPT ![handles + 1].pc = "open"]
    /\ handles' = handles + 1
    /\ main_pc' = IF handles + 1 = available_parallelism THEN "join" ELSE "spawn"
    /\ UNCHANGED <<overflow_checks, file, available_parallelism, chunks>>
    /\ UNCHANGED <<joined, stations, lock, res, out>>
    /\ UNCHANGED parseVars
    /\ UNCHANGED mergeVars

\* one turn of chunks.into_iter().map(|c| thread::spawn(..)), collected
MainSpawn ==
    /\ main_pc = "spawn"
    /\ handles < Len(chunks)
    /\ wk' = [wk EXCEPT ![handles + 1].pc = "open"]
    /\ handles' = handles + 1
    /\ main_pc' = IF handles + 1 = Len(chunks) THEN "join" ELSE "spawn"
    /\ UNCHANGED <<overflow_checks, file, available_parallelism, chunks>>
    /\ UNCHANGED <<joined, stations, lock, res, out>>
    /\ UNCHANGED parseVars
    /\ UNCHANGED mergeVars

\* one turn of `for h in handles { h.join().unwrap() }`: the thread has ended;
\* unwrap panics in main when it ended by a panic
MainJoin ==
    /\ main_pc = "join"
    /\ joined < handles
    /\ wk[joined + 1].pc \in {"done", "panicked"}
    /\ main_pc' = JoinUnwrap(wk[joined + 1].pc, joined + 1 = handles)
    /\ joined' = IF main_pc' = "failed" THEN joined ELSE joined + 1
    /\ UNCHANGED <<overflow_checks, file, available_parallelism, chunks>>
    /\ UNCHANGED <<handles, wk, stations, lock, res, out>>
    /\ UNCHANGED parseVars
    /\ UNCHANGED mergeVars

\* stations.lock(), collect, sort, format: calc returns the String
MainReport ==
    /\ main_pc = "report"
    /\ lock = 0
    /\ \E ks \in IterOrders(stations) : res' = Render(stations, ks)
    /\ main_pc' = "print"
    /\ UNCHANGED <<overflow_checks, file, available_parallelism, chunks>>
    /\ UNCHANGED <<handles, joined, wk, stations, lock, out>>
    /\ UNCHANGED parseVars
    /\ UNCHANGED mergeVars

\* println!("{res}")
MainPrintln ==
    /\ main_pc = "print"
    /\ out' = res \o <<NL>>
    /\ main_pc' = "done"
    /\ UNCHANGED <<overflow_checks, file, available_parallelism, chunks>>
    /\ UNCHANGED <<handles, joined, wk, stations, lock, res>>
    /\ UNCHANGED parseVars
    /\ UNCHANGED mergeVars

\* the thread starts: it opens the file, seeks to its chunk and reads the
\* first bytes
WorkerOpen(i) ==
    /\ Running
    /\ wk[i].pc = "open"
    /\ \E n \in ReadSizes(ReadAvail([pos |-> chunks[i].start_point,
                                     limit |-> chunks[i].len], file, CHUNK_SIZE)) :
          wk' = [wk EXCEPT ![i] = StartScan(chunks[i], file, n)]
    /\ UNCHANGED <<stations, lock>>
    /\ UNCHANGED mainVars

\* File::open(..).unwrap() or kontsa.read(..).unwrap() fails: the thread panics
WorkerIoError(i) ==
    /\ Running
    /\ \/ wk[i].pc = "open"
       \/ wk[i].pc = "scan" /\ ~HasLine(wk[i])
    /\ wk' = [wk EXCEPT ![i] = [NotSpawned EXCEPT !.pc = "panicked"]]
    /\ UNCHANGED <<stations, lock>>
    /\ UNCHANGED mainVars

\* the line observed by the shared map, without the mutex
WorkerLineShared(i) ==
    /\ Running
    /\ wk[i].pc = "scan"
    /\ HasLine(wk[i])
    /\ LET r == parse_line(CurrentLine(wk[i]), overflow_checks)
       IN  IF r.panic
           THEN wk' = [wk EXCEPT ![i].pc = "panicked"] /\ stations' = stations
           ELSE /\ wk' = [wk EXCEPT ![i].consumed = Consume(wk[i])]
                /\ stations' = Observe(stations, r.key, r.val)
    /\ UNCHANGED lock
    /\ UNCHANGED mainVars

\* a turn of the loop with a line in the buffer
WorkerLine(i) ==
    /\ Running
    /\ wk[i].pc = "scan"
    /\ HasLine(wk[i])
    /\ wk' = [wk EXCEPT ![i] = LineStep(wk[i], overflow_checks)]
    /\ UNCHANGED <<stations, lock>>
    /\ UNCHANGED mainVars

\* a turn of the loop with no line in the buffer
WorkerRefill(i) ==
    /\ Running
    /\ wk[i].pc = "scan"
    /\ ~HasLine(wk[i])
    /\ \E n \in ReadSizes(ReadAvail(wk[i], file, RefillSpace(wk[i]))) :
          wk' = [wk EXCEPT ![i] = RefillStep(wk[i], file, n)]
    /\ UNCHANGED <<stations, lock>>
    /\ UNCHANGED mainVars

\* the map entered without waiting for the mutex to be free
WorkerLockBarging(i) ==
    /\ Running
    /\ wk[i].pc = "lock"
    /\ lock' = i
    /\ wk' = [wk EXCEPT ![i].pc = "merge"]
    /\ UNCHANGED stations
    /\ UNCHANGED mainVars

\* c.outer_map.lock().unwrap()
WorkerLock(i) ==
    /\ Running
    /\ wk[i].pc = "lock"
    /\ lock = 0
    /\ lock' = i
    /\ wk' = [wk EXCEPT ![i].pc = "merge"]
    /\ UNCHANGED stations
    /\ UNCHANGED mainVars

\* one turn of `for (k, v) in stations_valipala`, in the order the map hands
\* its entries out
WorkerMerge(i) ==
    /\ Running
    /\ wk[i].pc = "merge"
    /\ \E k \in DOMAIN wk[i].stations :
          /\ stations' = MergeEntry(stations, k, wk[i].stations[k])
          /\ wk' = [wk EXCEPT ![i].stations = Without(@, k)]
    /\ UNCHANGED lock
    /\ UNCHANGED mainVars

\* the loop is over, the guard is dropped, the thread ends
WorkerUnlock(i) ==
    /\ Running
    /\ wk[i].pc = "merge"
    /\ DOMAIN wk[i].stations = {}
    /\ lock' = 0
    /\ wk' = [wk EXCEPT ![i].pc = "done"]
    /\ UNCHANGED stations
    /\ UNCHANGED mainVars

Next ==
    \/ PlanChunks
    \/ MainOpenFails
    \/ MainSpawn
    \/ MainJoin
    \/ MainReport
    \/ MainPrintln
    \/ \E i \in Workers : WorkerOpen(i)
    \/ \E i \in Workers : WorkerIoError(i)
    \/ \E i \in Workers : WorkerLine(i)
    \/ \E i \in Workers : WorkerRefill(i)
    \/ \E i \in Workers : WorkerLock(i)
    \/ \E i \in Workers : WorkerMerge(i)
    \/ \E i \in Workers : WorkerUnlock(i)

Spec == Init /\ [][Next]_vars

----------------------------------------------------------------------------
(* What a file holds, by the input format alone *)

\* the '\n'-terminated lines of f, without their '\n'
RECURSIVE SplitLines(_, _)
SplitLines(f, cur) ==
    IF f = <<>> THEN <<>>
    ELSE IF Head(f) = NL THEN <<cur>> \o SplitLines(Tail(f), <<>>)
    ELSE SplitLines(Tail(f), Append(cur, Head(f)))

\* the bytes after the last '\n' of f
RECURSIVE Unterminated(_, _)
Unterminated(f, cur) ==
    IF f = <<>> THEN cur
    ELSE IF Head(f) = NL THEN Unterminated(Tail(f), <<>>)
    ELSE Unterminated(Tail(f), Append(cur, Head(f)))

\* every line is shorter than the read buffer
LinesFit(f) ==
    /\ \A i \in DOMAIN SplitLines(f, <<>>) : Len(SplitLines(f, <<>>)[i]) < CHUNK_SIZE
    /\ Len(Unterminated(f, <<>>)) < CHUNK_SIZE

\* every line is a record of the grammar, ends with '\n' and is shorter than
\* the read buffer
WellFormed(f) ==
    /\ Unterminated(f, <<>>) = <<>>
    /\ \A i \in DOMAIN SplitLines(f, <<>>) : MatchesGrammar(SplitLines(f, <<>>)[i])
    /\ LinesFit(f)

RecordKey(ln) == SubSeq(ln, 1, LastSemi(ln) - 1)
RecordValue(ln) == ValueTenths(SubSeq(ln, LastSemi(ln) + 1, Len(ln)))

RECURSIVE SumOver(_, _)
SumOver(val, S) ==
    IF S = {} THEN 0
    ELSE LET i == CHOOSE i \in S : TRUE IN val[i] + SumOver(val, S \ {i})

\* min, max, sum and count of the values of each key over all lines of f
FileStats(f) ==
    LET ls == SplitLines(f, <<>>)
        val == [i \in DOMAIN ls |-> RecordValue(ls[i])]
        of(k) == {i \in DOMAIN ls : RecordKey(ls[i]) = k}
    IN  [k \in {RecordKey(ls[i]) : i \in DOMAIN ls} |->
            [min |-> CHOOSE v \in {val[i] : i \in of(k)} :
                        \A i \in of(k) : v <= val[i],
             max |-> CHOOSE v \in {val[i] : i \in of(k)} :
                        \A i \in of(k) : v >= val[i],
             sum |-> SumOver(val, of(k)),
             count |-> Cardinality(of(k))]]

\* the keys of m, each once, in strictly ascending byte-wise order
Ascending(m) ==
    CHOOSE ks \in IterOrders(m) :
        \A i, j \in DOMAIN ks : i < j => LexLess(ks[i], ks[j])

\* "{k1=min1/mean1/max1, k2=min2/mean2/max2, ...}\n" over the keys ascending
Summary(m) == <<123>> \o JoinEntries(m, Ascending(m)) \o <<125, NL>>

Reported == main_pc \in {"print", "done"}

----------------------------------------------------------------------------
(* Claims about the whole run *)

\* C1: for a well-formed file the summary calc returns lists each key once, in
\* order, with the min, the max and the mean sum/10/count over all records of
\* the key in the file: every record is folded into the shared map exactly
\* once, whatever the chunk boundaries and the sizes of the reads.
C1_SummaryOfAllRecords ==
    (Reported /\ WellFormed(file)) =>
        /\ stations = FileStats(file)
        /\ res = Summary(FileStats(file))

\* "A;1.0\nB;-2.5\nA;3.0\n" gave "{A=1.0/2.0/3.0, B=-2.5/-2.5/-2.5}\n", two of
\* the threads having scanned an "A" line each
C1_Witness ==
    /\ main_pc = "done"
    /\ file = ScenarioFile
    /\ res = <<123, 65, 61, 49, DOT, ZERO, 47, 50, DOT, ZERO, 47, 51, DOT, ZERO, 44, 32,
               66, 61, MINUS, 50, DOT, 53, 47, MINUS, 50, DOT, 53, 47,
               MINUS, 50, DOT, 53, 125, NL>>
    /\ Cardinality({i \in Workers : chunks[i].start_point < Len(file)}) >= 2

\* the run with one chunk and one worker: the whole file is one chunk, scanned
\* by one call of aggregate_measurements and merged into the empty shared map
SoloChunk(f) == [start_point |-> 0, len |-> Len(f) + 1]
SoloRun(f, checks) == aggregate_measurements(SoloChunk(f), f, checks)
SoloStations(f, checks) == MergeAll(<<>>, SoloRun(f, checks).stations)

\* C2: the run with several chunks ends with the shared map and the summary of
\* the run with one chunk and one worker over the same file (of lines shorter
\* than the read buffer), and it returns a summary only if that run does.
C2_SameAsOneWorker ==
    (Reported /\ LinesFit(file)) =>
        /\ SoloRun(file, overflow_checks).pc # "panicked"
        /\ stations = SoloStations(file, overflow_checks)
        /\ res = Summary(SoloStations(file, overflow_checks))

\* a file of three lines was scanned by three threads, one line each
C2_Witness ==
    /\ main_pc = "done"
    /\ Len(SplitLines(file, <<>>)) = 3
    /\ Cardinality({i \in Workers : chunks[i].start_point < Len(file)}) = 3
    /\ stations # <<>>

\* the maps of the chunks i..n, each scanned by one call of
\* aggregate_measurements, merged into m one after the other
RECURSIVE MergeInOrder(_, _, _, _, _)
MergeInOrder(m, f, cs, i, checks) ==
    IF i > Len(cs) THEN m
    ELSE MergeInOrder(MergeAll(m, aggregate_measurements(cs[i], f, checks).stations),
                      f, cs, i + 1, checks)

\* C3: whatever the interleaving of the scans and the order in which the
\* workers take the mutex, the shared map ends as the merge of the chunks'
\* maps in chunk order and the summary is its rendering: both are functions
\* of the file alone, so two runs on a file give the same bytes.
C3_OrderIndependent ==
    Reported =>
        /\ stations = MergeInOrder(<<>>, file, chunks, 1, overflow_checks)
        /\ res = Summary(MergeInOrder(<<>>, file, chunks, 1, overflow_checks))
        /\ (main_pc = "done" => out = res \o <<NL>>)

\* a later chunk's worker merged a key before an earlier chunk's worker added
\* its own entry of that key
C3_Witness ==
    \E i, j \in Workers :
        /\ i < j
        /\ wk[j].pc = "done"
        /\ wk[i].pc = "merge"
        /\ \E k \in DOMAIN stations : k \notin DOMAIN wk[i].stations /\ stations[k].count = 2
        /\ lock = i

\* a worker thread's panic: a parse or I/O error
SomePanicked == \E i \in Workers : wk[i].pc = "panicked"


\* C9 as amended: a parse or I/O error panics the worker's thread alone; the
\* other workers go on scanning and merging until the in-order join of the main
\* thread reaches the panicked thread and fails the process.  No summary is
\* returned or printed in a run in which a worker panicked, and a summary is
\* returned only after every chunk's worker has finished.
C9_NoSummaryAfterError ==
    /\ SomePanicked => (res = <<>> /\ out = <<>> /\ main_pc \notin {"report", "print", "done"})
    /\ main_pc \in {"report", "print", "done"} => \A i \in Workers : wk[i].pc = "done"

\* the process failed on the panic of a later thread after an earlier one had
\* merged its map
C9_Witness ==
    /\ main_pc = "failed"
    /\ SomePanicked
    /\ stations # <<>>
    /\ res = <<>>
    /\ out = <<>>

\* every line of f is a '\n'-terminated record of the grammar
AllLinesMatch(f) ==
    /\ Unterminated(f, <<>>) = <<>>
    /\ \A i \in DOMAIN SplitLines(f, <<>>) : MatchesGrammar(SplitLines(f, <<>>)[i])

\* C9 as stated: a format violation in the file never lets the run return a
\* summary, and on an error in a worker the process terminates immediately:
\* once a thread has panicked, the only step is the failure of the process.
C9_FailsImmediately ==
    /\ [](Reported => AllLinesMatch(file))
    /\ [][SomePanicked => main_pc' = "failed"]_vars

\* the worker threads that have not folded any entry into the shared map
NotMerging(i) == wk[i].pc \in {"unspawned", "open", "scan", "lock", "panicked"}

\* C11: the shared map is empty as long as no worker has begun its merge, so
\* it is created empty before any worker starts; and the main thread is at
\* the report (lock, collect, sort, render), or past it, only when every chunk
\* has its thread, every thread has been joined, every worker has merged all
\* of its entries and ended, and the mutex is free.
C11_ReportAfterAllMerged ==
    /\ (\A i \in Workers : NotMerging(i)) => stations = <<>>
    /\ main_pc \in {"report", "print", "done"} =>
          /\ handles = Len(chunks)
          /\ joined = handles
          /\ lock = 0
          /\ \A i \in Workers : wk[i].pc = "done" /\ DOMAIN wk[i].stations = {}

\* the main thread is about to read the shared map, which four joined workers
\* have merged three records into
C11_Witness ==
    /\ main_pc = "report"
    /\ joined = 4
    /\ res = <<>>
    /\ Cardinality(DOMAIN stations) = 2
    /\ file = ScenarioFile

\* C12: at most one worker is in the merge section at a time, and it is the
\* holder of the mutex; the shared map is changed only by the holder, one key
\* of its private map at a time, and the mutex is handed on only when the
\* holder has folded all of its keys, so that a worker's whole merge is atomic
\* to the others; a worker enters the merge only from waiting for the mutex,
\* ends only from the merge, and once ended takes no further step, so every
\* worker that ends has merged exactly once.
C12_MergeOnceExclusive ==
    /\ [](/\ Cardinality({i \in Workers : wk[i].pc = "merge"}) <= 1
          /\ \A i \in Workers : wk[i].pc = "merge" <=> lock = i)
    /\ [][/\ stations' # stations =>
                \E i \in Workers :
                    /\ lock = i /\ lock' = i
                    /\ wk[i].pc = "merge"
                    /\ \A j \in Workers \ {i} : wk'[j] = wk[j]
                    /\ \E k \in DOMAIN wk[i].stations :
                          /\ DOMAIN wk'[i].stations = DOMAIN wk[i].stations \ {k}
                          /\ DOMAIN stations' = DOMAIN stations \cup {k}
                          /\ \A x \in DOMAIN stations \ {k} : stations'[x] = stations[x]
          /\ (lock # 0 /\ lock' # lock) =>
                /\ lock' = 0
                /\ DOMAIN wk[lock].stations = {}
                /\ wk'[lock].pc = "done"
          /\ \A i \in Workers :
                /\ (wk'[i].pc = "merge" /\ wk[i].pc # "merge") => wk[i].pc = "lock"
                /\ (wk'[i].pc = "done" /\ wk[i].pc # "done") => wk[i].pc = "merge"
                /\ wk[i].pc = "done" => wk'[i] = wk[i]]_vars

\* the first worker holds the mutex with one of its two keys merged while the
\* second one, its scan over, waits for it
C12_Witness ==
    /\ file = TwoKeyChunkFile
    /\ lock = 1
    /\ wk[1].pc = "merge"
    /\ Cardinality(DOMAIN wk[1].stations) = 1
    /\ Cardinality(DOMAIN stations) = 1
    /\ DOMAIN stations # DOMAIN wk[1].stations
    /\ wk[2].pc = "lock"
    /\ DOMAIN wk[2].stations # {}

\* min <= max, count >= 1, and the sum of count values of -999..999 at most
\* 999 * count in size, which an i64 holds for every count below 2^63 / 999
EntryOk(e) ==
    /\ e.min <= e.max
    /\ e.count >= 1
    /\ Abs(e.sum) <= 999 * e.count

\* the bytes of its chunk worker i has consumed: from the start of the chunk
\* to the end of the last line it has observed
ConsumedBytes(i) ==
    SubSeq(file, chunks[i].start_point + 1,
           wk[i].pos - Len(wk[i].buf) + wk[i].consumed)

\* per key, the min, max, exact sum and count of the values in those bytes
Folded(i) == FileStats(ConsumedBytes(i))

\* the workers whose entry of key k has been folded into the shared map,
\* fold[i] being what worker i has consumed
Contributors(fold, k) ==
    {i \in Workers :
        /\ \/ wk[i].pc = "done"
           \/ wk[i].pc = "merge" /\ k \notin DOMAIN wk[i].stations
        /\ k \in DOMAIN fold[i]}

MinOver(S) == CHOOSE v \in S : \A u \in S : v <= u
MaxOver(S) == CHOOSE v \in S : \A u \in S : v >= u

\* the entry of key k in the shared map is the min, max, exact sum and count
\* over the entries of k its contributors have consumed
SharedEntryExact(fold, k) ==
    LET cs == Contributors(fold, k)
        sums == [j \in Workers |-> IF j \in cs THEN fold[j][k].sum ELSE 0]
        counts == [j \in Workers |-> IF j \in cs THEN fold[j][k].count ELSE 0]
    IN  /\ k \in DOMAIN stations <=> cs # {}
        /\ k \in DOMAIN stations =>
              /\ stations[k].sum = SumOver(sums, cs)
              /\ stations[k].count = SumOver(counts, cs)
              /\ stations[k].min = MinOver({fold[j][k].min : j \in cs})
              /\ stations[k].max = MaxOver({fold[j][k].max : j \in cs})

\* C15: in every state every entry of every worker's map and of the shared map
\* has min <= max and count >= 1; a worker's map holds, per key, the min, max,
\* count and exact sum of the values of the lines the worker has consumed (of
\* those not yet handed to the shared map, during its merge); and an entry of
\* the shared map holds the min, max, count and exact sum over the entries
\* folded into it so far.  A sum is at most 999 times its count in size.
C15_StatsInvariant ==
    LET fold == [i \in Workers |-> Folded(i)]
    IN  /\ \A i \in Workers : \A k \in DOMAIN wk[i].stations : EntryOk(wk[i].stations[k])
        /\ \A k \in DOMAIN stations : EntryOk(stations[k])
        /\ \A i \in Workers :
              /\ wk[i].pc \in {"scan", "lock"} => wk[i].stations = fold[i]
              /\ wk[i].pc = "merge" =>
                    /\ DOMAIN wk[i].stations \subseteq DOMAIN fold[i]
                    /\ \A k \in DOMAIN wk[i].stations : wk[i].stations[k] = fold[i][k]
        /\ \A k \in DOMAIN stations \cup
                     UNION {DOMAIN fold[i] : i \in {j \in Workers : wk[j].pc \in {"merge", "done"}}} :
              SharedEntryExact(fold, k)

\* the first worker has observed A;1.0 and A;-2.5 into one entry while the
\* second one has merged B;-2.5 into the shared map
C15_Witness ==
    /\ file = LongChunkFile
    /\ Workers # {}
    /\ wk[1].pc = "scan"
    /\ wk[1].stations = (<<65>> :> [min |-> 0 - 25, max |-> 10, sum |-> 0 - 15, count |-> 2])
    /\ wk[2].pc = "done"
    /\ stations = (<<66>> :> NewStats(0 - 25))

\* the bytes of the file in the buffer of worker i
BufferIsOwnBytes(i) ==
    /\ wk[i].buf = SubSeq(file, wk[i].pos - Len(wk[i].buf) + 1, wk[i].pos)
    /\ wk[i].pos - Len(wk[i].buf) >= chunks[i].start_point
    /\ wk[i].pos + wk[i].limit = ChunkEnd(chunks[i])

\* C16: a scanning worker holds in its buffer bytes of its own chunk only,
\* read through its own handle; a step of a worker that is opening or scanning
\* leaves the shared map, the mutex and every other worker's state (its map,
\* its buffer, its read position) as they are; only a worker in its merge
\* changes the shared map; and a worker comes to request the mutex only by the
\* end of its scan, a read that returned zero bytes with no line left in the
\* buffer, and is given it only when it has requested it.
C16_ScanTouchesOwnStateOnly ==
    /\ [](\A i \in Workers : wk[i].pc = "scan" => BufferIsOwnBytes(i))
    /\ [][\A i \in Workers :
            /\ (wk[i].pc \in {"open", "scan"} /\ wk'[i] # wk[i]) =>
                  /\ stations' = stations
                  /\ lock' = lock
                  /\ \A j \in Workers \ {i} : wk'[j] = wk[j]
            /\ (wk'[i].pc = "lock" /\ wk[i].pc # "lock") =>
                  /\ wk[i].pc = "scan"
                  /\ ~HasLine(wk[i])
                  /\ ReadAvail(wk[i], file, RefillSpace(wk[i])) = 0
                  /\ wk'[i].stations = wk[i].stations
            /\ (lock' = i /\ lock # i) => wk[i].pc = "lock"
            /\ stations' # stations => (lock = i <=> wk'[i] # wk[i])]_vars

\* a worker is in the middle of its scan, a line observed, while another one
\* holds the mutex and has changed the shared map
C16_Witness ==
    \E i, j \in Workers :
        /\ wk[i].pc = "scan"
        /\ wk[i].consumed > 0
        /\ DOMAIN wk[i].stations # {}
        /\ lock = j
        /\ DOMAIN stations # {}

----------------------------------------------------------------------------
(* The run under fair scheduling and without I/O errors: as long as some    *)
(* thread can take a step, a thread is scheduled and takes one.  A thread   *)
(* waiting for the mutex can take a step when it is free.  This asks less   *)
(* of the scheduler than fairness to each thread does.                     *)

MainStep ==
    \/ PlanChunks
    \/ MainSpawn
    \/ MainJoin
    \/ MainReport
    \/ MainPrintln

WorkerStep(i) ==
    /\ i \in Workers
    /\ \/ WorkerOpen(i)
       \/ WorkerLine(i)
       \/ WorkerRefill(i)
       \/ WorkerLock(i)
       \/ WorkerMerge(i)
       \/ WorkerUnlock(i)

LiveNext == MainStep \/ \E i \in Workers : WorkerStep(i)

\* the run on a well-formed file
LiveInit == Init /\ WellFormed(file)

SpecLive ==
    /\ LiveInit
    /\ [][LiveNext]_vars
    /\ WF_vars(LiveNext)

\* the run is over: the summary is printed, every worker has ended after its
\* merge and the mutex is free
RunOver ==
    /\ main_pc = "done"
    /\ out = res \o <<NL>>
    /\ lock = 0
    /\ Workers # {}
    /\ \A i \in Workers : wk[i].pc = "done" /\ ReadAvail(wk[i], file, 1) = 0

\* C20: every turn of a worker's scan loop consumes a line, obtains at least
\* one new byte or leaves the loop (by the break, or by a panic); and on a
\* well-formed file (all that SpecLive starts from), under fair scheduling
\* and without I/O errors, the run comes to its end: every worker has left its loop, taken the mutex, merged
\* and ended, every join has returned and the summary is printed.
C20_Terminates ==
    /\ [][\A i \in Workers :
            (wk[i].pc = "scan" /\ wk'[i] # wk[i]) =>
                \/ wk'[i].pc \in {"lock", "panicked"}
                \/ wk'[i].pos = wk[i].pos /\ wk'[i].consumed > wk[i].consumed
                \/ wk'[i].pos > wk[i].pos]_vars
    /\ <>RunOver

\* the run over the file whose first chunk is longer than the buffer is over
C20_Witness ==
    /\ RunOver
    /\ file = LongChunkFile
    /\ stations = FileStats(file)

----------------------------------------------------------------------------
(* The planner and the spawn loop on their own: a file and a parallelism    *)
(* are drawn, calc plans the chunks and spawns the threads, which do not    *)
(* run yet.                                                                *)

SpawnNext == PlanChunks \/ MainSpawn

SpecSpawn == PlanInit /\ [][SpawnNext]_vars

\* the threads spawned so far
Spawned == {i \in Workers : wk[i].pc # "unspawned"}

\* C21: chunk_le_file returns exactly chunk_count = available_parallelism * 4
\* chunks for every file length, 0 and lengths below chunk_count included; the
\* recorded length of each chunk is at least the target size file_len /
\* chunk_count + 1, the cursor being moved on by the target from the end of the
\* previous chunk with no clamp to the file length, so that the i-th chunk
\* ends at or after i times the target and chunks start and end beyond the end
\* of the file; the spawn loop spawns one thread for each of these chunks, in
\* order, and goes on to the joins when each chunk has its thread.
C21_ChunkPerSlotThreadPerChunk ==
    Planned =>
        LET chunk_count == available_parallelism * OVERSUBSCRIPTION
            target == (Len(file) \div chunk_count) + 1
        IN  /\ Len(chunks) = chunk_count
            /\ \A i \in 1..Len(chunks) :
                  /\ chunks[i].len >= target
                  /\ chunks[i].start_point >= (i - 1) * target
                  /\ ChunkEnd(chunks[i]) >= i * target
            /\ ChunkEnd(chunks[Len(chunks)]) > Len(file)
            /\ Spawned = 1..handles
            /\ handles <= Len(chunks)
            /\ (main_pc = "spawn" <=> handles < Len(chunks))
            /\ (main_pc # "spawn" => Spawned = 1..Len(chunks))

\* a file of one byte has been planned for a parallelism of two: eight chunks,
\* seven of them wholly beyond the end of the file, and eight threads
C21_Witness ==
    /\ main_pc = "join"
    /\ Len(file) = 1
    /\ available_parallelism = 2
    /\ Len(chunks) = 8
    /\ handles = 8
    /\ Cardinality({i \in 1..Len(chunks) : chunks[i].start_point >= Len(file)}) = 7
    /\ \A i \in Workers : wk[i].pc = "open"

----------------------------------------------------------------------------
(* The scan on its own: one worker is given a line-aligned chunk of a file  *)
(* and runs aggregate_measurements over it, every read returning any       *)
(* number of the bytes that can be read.                                   *)

MaxScanLines == 3
\* "A..A;-2.5" of n bytes
PaddedLine(n) == [j \in 1..(n - 5) |-> 65] \o <<SEMI, MINUS, 50, DOT, 53>>
\* "A;1.0", "AB;-2.5", "AAAAAA;-2.5", which fills the read buffer with its
\* '\n', and "AAAAAAA;-2.5", which is as long as the read buffer
ScanLines == {<<65, SEMI, 49, DOT, ZERO>>,
              <<65, 66, SEMI, MINUS, 50, DOT, 53>>,
              PaddedLine(CHUNK_SIZE - 1),
              PaddedLine(CHUNK_SIZE)}
\* nothing, or the record "A;9.9" without its '\n'
ScanTails == {<<>>, <<65, SEMI, 57, DOT, 57>>}
ScanFiles == {Concat(ls) \o t : ls \in SeqsUpTo(ScanLines, MaxScanLines), t \in ScanTails}

\* the offsets of f just after a '\n', and 0
LineStarts(f) == {0} \cup {o \in 1..Len(f) : f[o] = NL}

\* the chunks of f that start at a line start and end at one, at the end of
\* the file or beyond it
AlignedChunks(f) ==
    {c \in {MkChunk(s, e) : s \in LineStarts(f),
                            e \in LineStarts(f) \cup {Len(f), Len(f) + 1}} : c.len > 0}

ScanInit ==
    /\ overflow_checks = FALSE
    /\ ParserIdle
    /\ MergerIdle
    /\ file \in ScanFiles
    /\ available_parallelism = 1
    /\ main_pc = "join"
    /\ \E c \in AlignedChunks(file) : chunks = <<c>>
    /\ handles = 1
    /\ joined = 0
    /\ wk = <<[NotSpawned EXCEPT !.pc = "open"]>>
    /\ stations = <<>>
    /\ lock = 0
    /\ res = <<>>
    /\ out = <<>>

\* File::open, seek, take and the first read, of any size
ScanOpen(i) ==
    /\ wk[i].pc = "open"
    /\ \E n \in AllReadSizes(ReadAvail([pos |-> chunks[i].start_point,
                                        limit |-> chunks[i].len], file, CHUNK_SIZE)) :
          wk' = [wk EXCEPT ![i] = StartScan(chunks[i], file, n)]
    /\ UNCHANGED <<stations, lock>>
    /\ UNCHANGED mainVars

\* a turn of the loop with no line in the buffer, the read of any size
ScanRefill(i) ==
    /\ wk[i].pc = "scan"
    /\ ~HasLine(wk[i])
    /\ \E n \in AllReadSizes(ReadAvail(wk[i], file, RefillSpace(wk[i]))) :
          wk' = [wk EXCEPT ![i] = RefillStep(wk[i], file, n)]
    /\ UNCHANGED <<stations, lock>>
    /\ UNCHANGED mainVars

ScanNext ==
    \/ \E i \in Workers : ScanOpen(i)
    \/ \E i \in Workers : WorkerLine(i)
    \/ \E i \in Workers : ScanRefill(i)

SpecScan == ScanInit /\ [][ScanNext]_vars

\* the bytes of f in the chunk c
ChunkBytesOf(c, f) == SubSeq(f, c.start_point + 1, MinOf(Len(f), ChunkEnd(c)))

\* the lines ls parsed and observed one after the other, each once
RECURSIVE FoldLines(_, _, _)
FoldLines(m, ls, checks) ==
    IF ls = <<>> THEN m
    ELSE LET r == parse_line(Head(ls), checks)
         IN  FoldLines(Observe(m, r.key, r.val), Tail(ls), checks)

\* the scan of worker i has returned
ScanOver(i) == wk[i].pc = "lock"

\* C13: when the scan of a line-aligned chunk whose lines are shorter than the
\* buffer returns, whatever sizes the reads had, the worker has read the chunk
\* to its end and its map is the fold, by the observe rule, of the
\* '\n'-terminated lines of the chunk, each parsed once and in order: the
\* total of the counts is the number of those lines.
C13_WorkerContract ==
    \A i \in Workers :
        (ScanOver(i) /\ LinesFit(ChunkBytesOf(chunks[i], file))) =>
            LET ls == SplitLines(ChunkBytesOf(chunks[i], file), <<>>)
            IN  /\ wk[i].stations = FoldLines(<<>>, ls, overflow_checks)
                /\ SumOver([k \in DOMAIN wk[i].stations |-> wk[i].stations[k].count],
                           DOMAIN wk[i].stations) = Len(ls)
                /\ wk[i].pos = MinOf(Len(file), ChunkEnd(chunks[i]))

\* the scan of a chunk of three lines, longer than the buffer, has returned
\* with the three records
C13_Witness ==
    \E i \in Workers :
        /\ ScanOver(i)
        /\ Len(ChunkBytesOf(chunks[i], file)) > CHUNK_SIZE
        /\ LinesFit(ChunkBytesOf(chunks[i], file))
        /\ wk[i].stations = (<<65>> :> [min |-> 10, max |-> 10, sum |-> 20, count |-> 2])
                                @@ (<<65, 66>> :> NewStats(0 - 25))

\* C19: the step that ends the scan, a read of zero bytes with no '\n' among
\* the pending bytes, leaves the worker's map as it is, whatever bytes are
\* pending; and after the scan of a chunk that ends with unterminated bytes
\* the map holds the records of the terminated lines before them and nothing
\* of the unterminated ones.
C19_TailDiscarded ==
    /\ [][\A i \in Workers :
            (wk[i].pc = "scan" /\ wk'[i].pc = "lock") =>
                /\ ~HasLine(wk[i])
                /\ wk'[i].stations = wk[i].stations]_vars
    /\ [](\A i \in Workers :
            LET bytes == ChunkBytesOf(chunks[i], file)
                tail == Unterminated(bytes, <<>>)
            IN  (ScanOver(i) /\ LinesFit(bytes) /\ tail # <<>>) =>
                    wk[i].stations = FileStats(SubSeq(bytes, 1, Len(bytes) - Len(tail))))

\* the scan of "A;1.0\nA;9.9" has returned with the record A;1.0 alone, all
\* bytes read
C19_Witness ==
    \E i \in Workers :
        /\ ScanOver(i)
        /\ file = <<65, SEMI, 49, DOT, ZERO, NL, 65, SEMI, 57, DOT, 57>>
        /\ chunks[i].start_point = 0
        /\ wk[i].pos = Len(file)
        /\ wk[i].stations = (<<65>> :> NewStats(10))

\* the lines of the chunk bytes, the unterminated last one included
AllLines(bytes) == SplitLines(bytes, <<>>) \o <<Unterminated(bytes, <<>>)>>

\* the lines that do not fit the read buffer with room for a '\n'
Overlong(bytes) == {j \in DOMAIN AllLines(bytes) : Len(AllLines(bytes)[j]) >= CHUNK_SIZE}

\* the lines before the first overlong one
BeforeOverlong(bytes) ==
    LET j == CHOOSE j \in Overlong(bytes) : \A q \in Overlong(bytes) : j <= q
    IN  SubSeq(AllLines(bytes), 1, j - 1)

\* the read buffer of w is full and holds no '\n' after the consumed bytes
BufferFullNoLine(w) ==
    /\ w.pc = "scan"
    /\ ~HasLine(w)
    /\ Len(Remainder(w)) = CHUNK_SIZE

\* C23: when the read buffer is completely filled with bytes that hold no
\* '\n' (a line at least as long as the buffer), the refill reads into an
\* empty slice, gets zero bytes, and the scan loop exits as at the end of the
\* stream: the worker returns the map built so far with no error raised, it
\* has read the first CHUNK_SIZE bytes of that line and no further, and its
\* map holds the records before that line and none of the records after it.
C23_FullBufferEndsScan ==
    /\ [][\A i \in Workers :
            BufferFullNoLine(wk[i]) =>
                /\ RefillSpace(wk[i]) = 0
                /\ wk'[i].pc = "lock"
                /\ wk'[i].stations = wk[i].stations
                /\ wk'[i].pos = wk[i].pos
                /\ wk'[i].pos < MinOf(Len(file), ChunkEnd(chunks[i]))]_vars
    /\ [](\A i \in Workers :
            LET bytes == ChunkBytesOf(chunks[i], file)
            IN  (Overlong(bytes) # {}) =>
                    /\ wk[i].pc # "panicked"
                    /\ ScanOver(i) =>
                          /\ wk[i].stations
                                = FoldLines(<<>>, BeforeOverlong(bytes), overflow_checks)
                          /\ wk[i].pos = chunks[i].start_point
                                + Len(Concat(BeforeOverlong(bytes))) + CHUNK_SIZE)

\* the scan of "A;1.0", a line as long as the buffer and "A;1.0" has returned
\* with the first record alone, the '\n' of the long line and the third line
\* not read
C23_Witness ==
    \E i \in Workers :
        /\ ScanOver(i)
        /\ file = Concat(<< <<65, SEMI, 49, DOT, ZERO>>, PaddedLine(CHUNK_SIZE),
                            <<65, SEMI, 49, DOT, ZERO>> >>)
        /\ chunks[i].start_point = 0
        /\ wk[i].pos = 6 + CHUNK_SIZE
        /\ wk[i].pos < Len(file)
        /\ wk[i].stations = (<<65>> :> NewStats(10))

----------------------------------------------------------------------------
(* The merge on its own: records are folded each into one of a few private  *)
(* maps by the observe rule, and the private maps are merged into the       *)
(* shared map, in any order, by the loop of the worker closure.             *)

MaxRecords == 3
MaxGroups == 2
\* "A", "B"
MergeKeys == {<<65>>, <<66>>}
MergeValues == {0 - 25, 10, 30}

MergeInit ==
    /\ overflow_checks = FALSE
    /\ ParserIdle
    /\ PlannerIdle
    /\ handles = 0 /\ joined = 0 /\ wk = <<>> /\ lock = 0 /\ res = <<>> /\ out = <<>>
    /\ stations = <<>>
    /\ records \in SeqsUpTo(MergeKeys \X MergeValues, MaxRecords)
    /\ taken = 0
    /\ groups = [g \in 1..MaxGroups |-> [map |-> <<>>, merged |-> FALSE]]

notMergeVars == <<overflow_checks, line, parsed, file, available_parallelism, main_pc,
                  chunks, handles, joined, wk, lock, res, out>>

\* the next record is observed by the private map g
GroupObserve(g) ==
    /\ taken < Len(records)
    /\ ~groups[g].merged
    /\ groups' = [groups EXCEPT ![g].map =
                     Observe(@, records[taken + 1][1], records[taken + 1][2])]
    /\ taken' = taken + 1
    /\ UNCHANGED <<records, stations>>
    /\ UNCHANGED notMergeVars

\* `for (k, v) in stations_valipala { .. }` with the entries handed out in the order ks
RECURSIVE MergeInKeyOrder(_, _, _)
MergeInKeyOrder(m, local, ks) ==
    IF ks = <<>> THEN m
    ELSE MergeInKeyOrder(MergeEntry(m, Head(ks), local[Head(ks)]), local, Tail(ks))

\* the private map g is merged into the shared map
GroupMerge(g) ==
    /\ ~groups[g].merged
    /\ \E ks \in IterOrders(groups[g].map) :
          stations' = MergeInKeyOrder(stations, groups[g].map, ks)
    /\ groups' = [groups EXCEPT ![g].merged = TRUE]
    /\ UNCHANGED <<records, taken>>
    /\ UNCHANGED notMergeVars

MergeNext ==
    \/ \E g \in DOMAIN groups : GroupObserve(g)
    \/ \E g \in DOMAIN groups : GroupMerge(g)

SpecMerge == MergeInit /\ [][MergeNext]_vars

\* all records folded into one map directly
RECURSIVE FoldAll(_, _)
FoldAll(m, rs) ==
    IF rs = <<>> THEN m ELSE FoldAll(Observe(m, Head(rs)[1], Head(rs)[2]), Tail(rs))

AllMerged == taken = Len(records) /\ \A g \in DOMAIN groups : groups[g].merged

\* C4: however the records are split into groups and in whatever order the
\* groups' maps are merged into the empty shared map, the shared map ends with
\* the min, max, sum and count per key of all records folded into one map.
C4_MergeAssociative ==
    (groups # <<>> /\ AllMerged) => stations = FoldAll(<<>>, records)

\* A;3.0 was folded into one map and A;-2.5 into another, and both were merged
C4_Witness ==
    /\ groups # <<>>
    /\ AllMerged
    /\ \A g \in DOMAIN groups : DOMAIN groups[g].map = {<<65>>}
    /\ stations = (<<65>> :> [min |-> 0 - 25, max |-> 30, sum |-> 5, count |-> 2])

\* the entry of key k after value v was observed by a map in which it was old
\* (or absent)
ObservedEntry(m, k, v) ==
    IF k \in DOMAIN m
    THEN [min |-> IF v < m[k].min THEN v ELSE m[k].min,
          max |-> IF v > m[k].max THEN v ELSE m[k].max,
          sum |-> m[k].sum + v,
          count |-> m[k].count + 1]
    ELSE [min |-> v, max |-> v, sum |-> v, count |-> 1]

\* the keys of m are keys of n, with counts at least as large
GrowsTo(m, n) ==
    /\ DOMAIN m \subseteq DOMAIN n
    /\ \A k \in DOMAIN m : m[k].count <= n[k].count

\* C14: observe(key, value) inserts {min: value, max: value, sum: value,
\* count: 1} for an absent key and else sets min, max to the smaller, larger of
\* the old one and value, adds value to sum and 1 to count; it leaves the
\* entries of all other keys, the other maps and the shared map unchanged; and
\* no step, observe or merge, removes a key from a map or lowers a count.
C14_ObserveFrame ==
    /\ [][taken' = taken + 1 =>
            \E g \in DOMAIN groups :
                LET k == records[taken + 1][1]
                    v == records[taken + 1][2]
                    old == groups[g].map
                    new == groups'[g].map
                IN  /\ \A h \in DOMAIN groups \ {g} : groups'[h] = groups[h]
                    /\ stations' = stations
                    /\ DOMAIN new = DOMAIN old \cup {k}
                    /\ new[k] = ObservedEntry(old, k, v)
                    /\ \A x \in DOMAIN old \ {k} : new[x] = old[x]]_vars
    /\ [][/\ GrowsTo(stations, stations')
          /\ \A g \in DOMAIN groups : GrowsTo(groups[g].map, groups'[g].map)]_vars

\* a map that held A and B has observed A a second time: A's entry is
\* updated, B's is as it was
C14_Witness ==
    /\ taken = 3
    /\ records = << <<(<<65>>), 30>>, <<(<<66>>), 10>>, <<(<<65>>), 0 - 25>> >>
    /\ \E g \in DOMAIN groups :
          groups[g].map = (<<65>> :> [min |-> 0 - 25, max |-> 30, sum |-> 5, count |-> 2])
                           @@ (<<66>> :> NewStats(10))

\* sum / count lies between min and max
MeanBetween(e) == e.min * e.count <= e.sum /\ e.sum <= e.max * e.count

\* the mean as the report prints it, in tenths
PrintedMean(e) ==
    IF e.sum < 0 THEN 0 - RoundedMean(e.sum, e.count) ELSE RoundedMean(e.sum, e.count)

\* an entry whose mean, exact and as printed, is between its min and its max
MeanOk(e) ==
    /\ e.count >= 1
    /\ MeanBetween(e)
    /\ e.min <= PrintedMean(e)
    /\ PrintedMean(e) <= e.max

\* C22: in every reachable state every entry of every accumulator, the private
\* maps and the shared one, satisfies min * count <= sum <= max * count, so the
\* mean computed on demand lies between the entry's min and max; observe and
\* the merge of two entries keep it so.
C22_MeanBetweenMinAndMax ==
    /\ \A k \in DOMAIN stations : MeanOk(stations[k])
    /\ \A g \in DOMAIN groups : \A k \in DOMAIN groups[g].map : MeanOk(groups[g].map[k])
    /\ \A i \in Workers : \A k \in DOMAIN wk[i].stations : MeanOk(wk[i].stations[k])

\* one map has observed A;1.0 and A;3.0, another A;-2.5, and both were merged:
\* the mean of the private entry and that of the shared entry lie strictly
\* between min and max
C22_Witness ==
    /\ AllMerged
    /\ records = << <<(<<65>>), 10>>, <<(<<65>>), 30>>, <<(<<65>>), 0 - 25>> >>
    /\ \E g \in DOMAIN groups :
          groups[g].map = (<<65>> :> [min |-> 10, max |-> 30, sum |-> 40, count |-> 2])
    /\ stations = (<<65>> :> [min |-> 0 - 25, max |-> 30, sum |-> 15, count |-> 3])

----------------------------------------------------------------------------
(* The report on its own: a shared map is drawn, calc renders it and main   *)
(* prints the String.                                                      *)

MaxRenderKeys == 3
\* "", "A", "AB", "B"
RenderKeys == {<<>>, <<65>>, <<65, 66>>, <<66>>}
RenderStats == {NewStats(10),
                [min |-> 0 - 25, max |-> 30, sum |-> 5, count |-> 2],
                [min |-> 0 - 995, max |-> 0, sum |-> 0 - 1000, count |-> 3]}

RenderInit ==
    /\ overflow_checks = FALSE
    /\ ParserIdle
    /\ MergerIdle
    /\ file = <<>> /\ available_parallelism = 1 /\ chunks = <<>>
    /\ handles = 0 /\ joined = 0 /\ wk = <<>> /\ lock = 0 /\ res = <<>> /\ out = <<>>
    /\ main_pc = "report"
    /\ \E ks \in SUBSET RenderKeys :
          /\ Cardinality(ks) <= MaxRenderKeys
          /\ stations \in [ks -> RenderStats]

RenderNext == MainReport \/ MainPrintln

SpecRender == RenderInit /\ [][RenderNext]_vars

\* C8: the summary is one line "{k1=min1/mean1/max1, k2=min2/mean2/max2, ...}\n"
\* holding every key of the shared map exactly once, the keys in strictly
\* ascending byte-wise order whatever the order the map hands them out in; the
\* empty map gives "{}\n".
C8_SortedSummary ==
    Reported =>
        /\ res = Summary(stations)
        /\ {i \in DOMAIN res : res[i] = NL} = {Len(res)}
        /\ (stations = <<>> => res = <<123, 125, NL>>)
        /\ (main_pc = "done" => out = res \o <<NL>>)

\* the map with the keys "", "AB" and "B" has been rendered
C8_Witness ==
    /\ Reported
    /\ DOMAIN stations = {<<>>, <<65, 66>>, <<66>>}
    /\ \A k \in DOMAIN stations : stations[k] = NewStats(10)
    /\ res = <<123, 61, 49, DOT, ZERO, 47, 49, DOT, ZERO, 47, 49, DOT, ZERO, 44, 32,
               65, 66, 61, 49, DOT, ZERO, 47, 49, DOT, ZERO, 47, 49, DOT, ZERO, 44, 32,
               66, 61, 49, DOT, ZERO, 47, 49, DOT, ZERO, 47, 49, DOT, ZERO, 125, NL>>

====
